---- MODULE Spec2Model ----
(***************************************************************************)
(* Model of the authentication core of escalopa/go-bank:                   *)
(*   - token.JWTMaker (NewJWTMaker, CreateToken, VerifyToken),             *)
(*   - handlers.authMiddleware,                                            *)
(*   - gapi.NewServer,                                                     *)
(*   - the delete-account handler behind the middleware (its code is not   *)
(*     among the sources: it follows the design document and the           *)
(*     handler's tests).                                                   *)
(*                                                                         *)
(* golang-jwt (jwt.NewWithClaims, SignedString, ParseWithClaims) is        *)
(* modelled as release v4 of the library behaves.                          *)
(*                                                                         *)
(* Strings.  A Go string that travels in the authorization header is a     *)
(* record [word, segs, hdr, claims, sig]:                                  *)
(*   word   the characters that matter to strings.ToLower and ==,          *)
(*   segs   the number of "."-separated segments jwt.Parse finds in it,    *)
(*   hdr    what the first segment base64/JSON-decodes to,                 *)
(*   claims what the second segment decodes to,                            *)
(*   sig    what the third segment decodes to.                             *)
(* The header itself is a sequence of such strings and of SP (one          *)
(* whitespace character).                                                  *)
(*                                                                         *)
(* Time.  An instant is an integer number of clock ticks; on the wire      *)
(* (time.Time's JSON form, RFC 3339 with a fraction) it is the pair        *)
(* [sec, frac].                                                            *)
(***************************************************************************)
EXTENDS Integers, Sequences, FiniteSets, TLC

VARIABLES
    config,      \* util.Config: the configured token secret
    now,         \* the clock
    jwt,         \* what NewJWTMaker returned: [maker, err], or NotBuilt
    grpcServer,  \* what gapi.NewServer returned: [server, err], or NotBuilt
    issued,      \* what the last CreateToken returned and the duration it was
                 \* called with, or NotIssued
    store,       \* db.Store: account id -> owner, NoRow for no such account
    req,         \* the request being served
    other,       \* a second request, served concurrently with req
    db           \* the accounts table behind db/sqlc's queries

vars == <<config, now, jwt, grpcServer, issued, store, req, other, db>>

(***************************************************************************)
(* Bounds of the model.                                                    *)
(***************************************************************************)
\* the clock runs over 0..MaxTime
MaxTime == 2
\* token durations (AccessTokenExpiration) range over -MaxDur..MaxDur
MaxDur == 1
\* secrets have minSecretKeyLen - KeySlack .. minSecretKeyLen + KeySlack bytes
KeySlack == 1
\* accounts have ids 1..MaxAccount
MaxAccount == 1
\* account balances run over -MaxBalance..MaxBalance
MaxBalance == 2
\* the amounts of a balance update run over -MaxAmount..MaxAmount
MaxAmount == 1
\* clock ticks per second of the wire form of an instant
TicksPerSec == 2

(***************************************************************************)
(* Program constants.                                                      *)
(***************************************************************************)
minSecretKeyLen == 32

authorizationTypeBearer == <<"b", "e", "a", "r", "e", "r">>

authorizationPayloadKey == "payload"

StatusCreated == 201
StatusOK == 200
StatusBadRequest == 400
StatusUnauthorized == 401
StatusNotFound == 404
StatusInternalServerError == 500

(***************************************************************************)
(* Values.                                                                 *)
(***************************************************************************)
NoErr == "nil"
ErrTokenExpired == "ErrTokenExpired"
ErrTokenInvalid == "ErrTokenInvalid"

\* a nil *Payload
NilPayload == [nil |-> TRUE]

\* the configured secret and a key the bank does not hold
ServerKey == "S"
OtherKey == "X"

Users == {"alice", "bob"}

\* the random ids (uuid) of tokens; OtherId is an id no token was issued with
TokenIds == {"uuid-1"}
OtherId == "uuid-2"

\* the signing methods golang-jwt registers
HMACMethods == {"HS256", "HS384", "HS512"}
ECDSAMethods == {"ES256", "ES384", "ES512"}
RSAMethods == {"RS256", "RS384", "RS512", "PS256", "PS384", "PS512"}
RegisteredMethods == HMACMethods \cup ECDSAMethods \cup RSAMethods \cup {"none", "EdDSA"}

(***************************************************************************)
(* time.Time <-> JSON                                                      *)
(***************************************************************************)
\* an encoder that drops the fraction of a second
MarshalTime_Truncating(t) == [sec |-> t \div TicksPerSec, frac |-> 0]

\* time.Time.MarshalJSON: seconds and the fraction of a second
MarshalTime(t) == [sec |-> t \div TicksPerSec, frac |-> t % TicksPerSec]

\* time.Time.UnmarshalJSON
UnmarshalTime(w) == w.sec * TicksPerSec + w.frac

(***************************************************************************)
(* Payload                                                                 *)
(***************************************************************************)
\* NewPayload(username, duration) at clock time t with random id `id`
NewPayload(username, duration, t, id) ==
    IF username = ""
    THEN [payload |-> NilPayload, err |-> "ErrInvalidIdentity"]
    ELSE [payload |-> [ID |-> id, Username |-> username,
                       IssuedAt |-> t, ExpireAt |-> t + duration],
          err |-> NoErr]

\* Payload.Valid() at clock time t
PayloadValid(payload, t) ==
    IF t > payload.ExpireAt THEN ErrTokenExpired ELSE NoErr

(***************************************************************************)
(* golang-jwt: encoding, signing                                           *)
(***************************************************************************)
\* json.Marshal of the claims, base64url-encoded: the second segment
EncodeClaims(payload) ==
    [ok |-> TRUE, id |-> payload.ID, username |-> payload.Username,
     issued_at |-> MarshalTime(payload.IssuedAt),
     expired_at |-> MarshalTime(payload.ExpireAt)]

\* json.Unmarshal of the second segment into &Payload{}
DecodeClaims(c) ==
    [ID |-> c.id, Username |-> c.username,
     IssuedAt |-> UnmarshalTime(c.issued_at),
     ExpireAt |-> UnmarshalTime(c.expired_at)]

\* the JOSE header of a token signed with method alg: the first segment
EncodeHeader(alg) == [ok |-> TRUE, alg |-> alg, typ |-> "JWT"]

\* HMAC-SHA(alg) over the signing string "<hdr>.<claims>" under key
HMAC(alg, key, hdr, claims) ==
    [alg |-> alg, key |-> key, hdr |-> hdr, claims |-> claims, flip |-> FALSE]

\* the base64url text of a signature: pad is the value of the unused low
\* bits of the last character, which the encoder sets to 0
EncodeSig(mac) == [ok |-> TRUE, mac |-> mac, pad |-> 0]

\* the text of a compact JWT "eyJ..." as strings.ToLower and == see it
JWTWord == <<"e", "y", "J">>

\* jwt.NewWithClaims(method, claims).SignedString(key) for an HMAC method
SignedString(alg, key, payload) ==
    [word |-> JWTWord, segs |-> 3,
     hdr |-> EncodeHeader(alg),
     claims |-> EncodeClaims(payload),
     sig |-> EncodeSig(HMAC(alg, key, EncodeHeader(alg), EncodeClaims(payload)))]

\* a string that is no JWT: the characters w
NoHdr == [ok |-> FALSE, alg |-> "", typ |-> ""]
NoClaims == [ok |-> FALSE, id |-> "", username |-> "",
             issued_at |-> MarshalTime(0), expired_at |-> MarshalTime(0)]
NoSig == [ok |-> FALSE, mac |-> HMAC("", "", NoHdr, NoClaims), pad |-> 0]

Word(w) == [word |-> w, segs |-> 1, hdr |-> NoHdr, claims |-> NoClaims, sig |-> NoSig]

\* the empty string
EmptyString == Word(<<>>)

(***************************************************************************)
(* token.JWTMaker                                                          *)
(***************************************************************************)
NoMaker == [nil |-> TRUE]

\* NewJWTMaker with an off-by-one length check
NewJWTMaker_OffByOne(secretKey) ==
    IF secretKey.len <= minSecretKeyLen
    THEN [maker |-> NoMaker, err |-> "secretKet len is less than the min value"]
    ELSE [maker |-> [secretKey |-> secretKey], err |-> NoErr]

\* NewJWTMaker(secretKey): secretKey is [name, len]
NewJWTMaker(secretKey) ==
    IF secretKey.len < minSecretKeyLen
    THEN [maker |-> NoMaker, err |-> "secretKet len is less than the min value"]
    ELSE [maker |-> [secretKey |-> secretKey], err |-> NoErr]

\* a CreateToken that passes no duration on to NewPayload
CreateToken_NoDuration(maker, username, duration, t, id) ==
    LET p == NewPayload(username, 0, t, id)
    IN  IF p.err # NoErr
        THEN [token |-> EmptyString, payload |-> p.payload, err |-> p.err]
        ELSE [token |-> SignedString("HS512", maker.secretKey.name, p.payload),
              payload |-> p.payload, err |-> NoErr]

\* JWTMaker.CreateToken(username), with AccessTokenExpiration = duration,
\* at clock time t, the random id being `id`
CreateToken(maker, username, duration, t, id) ==
    LET p == NewPayload(username, duration, t, id)
    IN  IF p.err # NoErr
        THEN [token |-> EmptyString, payload |-> p.payload, err |-> p.err]
        ELSE [token |-> SignedString("HS512", maker.secretKey.name, p.payload),
              payload |-> p.payload, err |-> NoErr]

\* JWTMaker.CreateRefreshToken
CreateRefreshToken(maker, username) ==
    [token |-> EmptyString, payload |-> NilPayload, err |-> NoErr]

\* the receiver after CreateToken: the method reads maker.secretKey
receiverAfterCreateToken(maker) == maker

\* the receiver after CreateRefreshToken
receiverAfterCreateRefreshToken(maker) == maker

\* a VerifyToken that stores another key in its receiver
receiverAfterVerifyToken_Rekeyed(maker) ==
    [maker EXCEPT !.secretKey.name = OtherKey]

\* the receiver after VerifyToken: keyFunc reads maker.secretKey
receiverAfterVerifyToken(maker) == maker

\* the keyFunc of VerifyToken
keyFunc(maker, alg) ==
    IF alg \in ECDSAMethods
    THEN [key |-> "", isBytes |-> FALSE, err |-> ErrTokenInvalid]
    ELSE [key |-> maker.secretKey.name, isBytes |-> TRUE, err |-> NoErr]

\* SigningMethod.Verify(signingString, signature, key) for method alg;
\* the key keyFunc returns is a []byte
MethodVerify(alg, hdr, claims, sig, key) ==
    IF alg \in HMACMethods
    THEN IF ~sig.ok THEN "base64 decode error"
         ELSE IF sig.mac = HMAC(alg, key, hdr, claims) THEN NoErr
         ELSE "ErrSignatureInvalid"
    ELSE IF alg = "none" THEN "NoneSignatureTypeDisallowedError"
    ELSE "ErrInvalidKeyType"

\* jwt.ParseWithClaims(token, &Payload{}, keyFunc) at clock time t:
\* [claims, inner, failed]: the decoded claims, the ValidationError's Inner
\* error, and whether an error is returned
ParseWithClaims(maker, token, t) ==
    IF token.segs # 3 \/ ~token.hdr.ok \/ ~token.claims.ok
    THEN [claims |-> NilPayload, inner |-> "ErrTokenMalformed", failed |-> TRUE]
    ELSE IF token.hdr.alg \notin RegisteredMethods
    THEN [claims |-> NilPayload, inner |-> "ErrTokenUnverifiable", failed |-> TRUE]
    ELSE
    LET k == keyFunc(maker, token.hdr.alg)
        p == DecodeClaims(token.claims)
        v == PayloadValid(p, t)
        s == MethodVerify(token.hdr.alg, token.hdr, token.claims, token.sig, k.key)
    IN  IF k.err # NoErr
        THEN [claims |-> p, inner |-> k.err, failed |-> TRUE]
        ELSE IF s # NoErr
        THEN [claims |-> p, inner |-> s, failed |-> TRUE]
        ELSE IF v # NoErr
        THEN [claims |-> p, inner |-> v, failed |-> TRUE]
        ELSE [claims |-> p, inner |-> NoErr, failed |-> FALSE]

\* a VerifyToken that hands back the parsed claims together with the error,
\* as jwt.ParseWithClaims hands back its token
VerifyToken_ClaimsWithError(maker, token, t) ==
    LET r == ParseWithClaims(maker, token, t)
    IN  IF r.failed
        THEN IF r.inner = ErrTokenExpired
             THEN [payload |-> r.claims, err |-> ErrTokenExpired]
             ELSE [payload |-> r.claims, err |-> ErrTokenInvalid]
        ELSE [payload |-> r.claims, err |-> NoErr]

\* JWTMaker.VerifyToken(token) at clock time t: [payload, err]
VerifyToken(maker, token, t) ==
    LET r == ParseWithClaims(maker, token, t)
    IN  IF r.failed
        THEN IF r.inner = ErrTokenExpired
             THEN [payload |-> NilPayload, err |-> ErrTokenExpired]
             ELSE [payload |-> NilPayload, err |-> ErrTokenInvalid]
        ELSE [payload |-> r.claims, err |-> NoErr]

(***************************************************************************)
(* gapi.NewServer                                                          *)
(***************************************************************************)
\* token.NewPasetoMaker(symmetricKey)
NewPasetoMaker(symmetricKey) ==
    IF symmetricKey.len < minSecretKeyLen
    THEN [maker |-> NoMaker, err |-> "WeakKey"]
    ELSE [maker |-> [symmetricKey |-> symmetricKey], err |-> NoErr]

NoServer == [nil |-> TRUE]

\* gapi.NewServer(config, store)
NewServer(cfg) ==
    LET m == NewPasetoMaker(cfg.TokenSymmetricKey)
    IN  IF m.err # NoErr
        THEN [server |-> NoServer,
              err |-> "cannot create tokenMaker for grpcServer"]
        ELSE [server |-> [config |-> cfg, tokenMaker |-> m.maker], err |-> NoErr]

(***************************************************************************)
(* handlers.authMiddleware                                                 *)
(***************************************************************************)
\* one whitespace character of the header
SP == Word(<<" ">>)

IsSpace(x) == x.word = <<" ">>

\* unicode.ToLower on the letters the model's words use
Lower(c) ==
    CASE c = "A" -> "a" [] c = "B" -> "b" [] c = "E" -> "e" [] c = "H" -> "h"
      [] c = "J" -> "j" [] c = "O" -> "o" [] c = "R" -> "r" [] c = "T" -> "t"
      [] c = "U" -> "u" [] OTHER -> c

\* strings.ToLower
ToLower(w) == [i \in 1..Len(w) |-> Lower(w[i])]

\* strings.Split on one space: every space ends a field, so a leading, a
\* trailing or a doubled space yields an empty field
RECURSIVE SplitFrom(_, _)
SplitFrom(header, cur) ==
    IF header = <<>>
    THEN <<cur>>
    ELSE IF IsSpace(Head(header))
    THEN <<cur>> \o SplitFrom(Tail(header), EmptyString)
    ELSE SplitFrom(Tail(header), Head(header))

\* the header cut at every single space instead of at runs of white space
Fields_SplitOnSpace(header) == SplitFrom(header, EmptyString)

\* strings.Fields(header): the maximal runs of non-space characters
Fields(header) == SelectSeq(header, LAMBDA x : ~IsSpace(x))

\* a header check that lets the empty header through
headerMissing_Never(header) == FALSE

\* len(authorizationHeader) == 0
headerMissing(header) == Len(header) = 0

\* the scheme compared as written
authorizationType_AsWritten(fields) == fields[1].word

\* strings.ToLower(fields[0])
authorizationType(fields) == ToLower(fields[1].word)

\* the gin context's keys: empty, or one key with its value
EmptyCtx == [key |-> "", value |-> NilPayload]

\* a ctx.Set that stores nothing
ctxSet_Nothing(key, value) == EmptyCtx

\* ctx.Set(key, value)
ctxSet(key, value) == [key |-> key, value |-> value]

NoVerify == [payload |-> NilPayload, err |-> "not called"]

\* ctx.JSON in place of ctx.AbortWithStatusJSON: the 401 is written and the
\* chain goes on to the handler
Abort_JSONOnly(msg, arg, verified) ==
    [outcome |-> "next", status |-> StatusUnauthorized,
     err |-> [msg |-> msg, arg |-> arg],
     ctx |-> EmptyCtx, verified |-> verified]

\* ctx.AbortWithStatusJSON(http.StatusUnauthorized, errorResponse(err)); return
Abort(msg, arg, verified) ==
    [outcome |-> "abort", status |-> StatusUnauthorized,
     err |-> [msg |-> msg, arg |-> arg],
     ctx |-> EmptyCtx, verified |-> verified]

\* the last field taken for the token
accessToken_Last(fields) == fields[Len(fields)]

\* accessToken := fields[1]
accessToken(fields) == fields[2]

\* authMiddleware(tokenMaker)(ctx) for a request whose authorization header is
\* `header`, at clock time t.  outcome "next": ctx.Next() is reached;
\* "abort": the request was aborted with `status`; "panic": the handler
\* panicked (nil pointer dereference) before writing a response.
authMiddleware(tokenMaker, header, t) ==
    IF headerMissing(header)
    THEN Abort("authorization header not provided", <<>>, NoVerify)
    ELSE
    LET fields == Fields(header)
    IN  IF Len(fields) < 2
        THEN Abort("invalid authorization format", <<>>, NoVerify)
        ELSE IF authorizationType(fields) # authorizationTypeBearer
        THEN Abort("unsupported authorization type", authorizationType(fields),
                   NoVerify)
        ELSE
        LET v == VerifyToken(tokenMaker, accessToken(fields), t)
        IN  IF v.payload = NilPayload
            THEN \* log.Println(payload.ExpireAt) dereferences the nil payload
                 [outcome |-> "panic", status |-> 0,
                  err |-> [msg |-> "nil pointer dereference", arg |-> <<>>],
                  ctx |-> EmptyCtx, verified |-> v]
            ELSE IF v.err # NoErr
            THEN Abort(v.err, <<>>, v)
            ELSE [outcome |-> "next", status |-> 0,
                  err |-> [msg |-> NoErr, arg |-> <<>>],
                  ctx |-> ctxSet(authorizationPayloadKey, v.payload),
                  verified |-> v]

(***************************************************************************)
(* The delete-account handler (DELETE /api/accounts/:id)                   *)
(***************************************************************************)
NoRow == ""

\* an ownership check that lets everybody through
ownerMatches_Always(owner, payload) == TRUE

\* the ownership check: the account's owner against the Payload's identity
ownerMatches(owner, payload) == owner = payload.Username

\* what one run of a handler behind the middleware did: the response status
\* (0: the handler panicked), the store calls in order, the account
\* GetAccount returned (NoRow: none), the last store error, the store after
Handled(status, calls, account, storeErr, st) ==
    [status |-> status, calls |-> calls, account |-> account,
     storeErr |-> storeErr, store |-> st]

\* a delete handler that compares the caller with the owner column before it
\* looks whether GetAccount returned a row
deleteAccount_OwnerFirst(ctx, id, st, getFails, deleteFails) ==
    IF id < 1
    THEN Handled(StatusBadRequest, <<>>, NoRow, NoErr, st)
    ELSE IF getFails
    THEN Handled(StatusInternalServerError, <<"GetAccount">>, NoRow,
                 "sql.ErrConnDone", st)
    ELSE IF ctx.key # authorizationPayloadKey \/ ctx.value = NilPayload
    THEN Handled(0, <<"GetAccount">>, NoRow, NoErr, st)
    ELSE IF id \notin DOMAIN st \/ ~ownerMatches(st[id], ctx.value)
    THEN Handled(StatusUnauthorized, <<"GetAccount">>, NoRow,
                 IF id \in DOMAIN st /\ st[id] # NoRow THEN NoErr
                 ELSE "sql.ErrNoRows", st)
    ELSE IF deleteFails
    THEN Handled(StatusInternalServerError, <<"GetAccount", "DeleteAccount">>,
                 st[id], "sql.ErrConnDone", st)
    ELSE Handled(StatusOK, <<"GetAccount", "DeleteAccount">>, st[id], NoErr,
                 [st EXCEPT ![id] = NoRow])

\* deleteAccount(ctx) for account id `id`, the store holding `st`;
\* getFails / deleteFails: the store's connection fails in that call
deleteAccount(ctx, id, st, getFails, deleteFails) ==
    IF id < 1
    THEN Handled(StatusBadRequest, <<>>, NoRow, NoErr, st)
    ELSE IF getFails
    THEN Handled(StatusInternalServerError, <<"GetAccount">>, NoRow,
                 "sql.ErrConnDone", st)
    ELSE IF id \notin DOMAIN st \/ st[id] = NoRow
    THEN Handled(StatusNotFound, <<"GetAccount">>, NoRow, "sql.ErrNoRows", st)
    ELSE IF ctx.key # authorizationPayloadKey \/ ctx.value = NilPayload
    THEN Handled(0, <<"GetAccount">>, st[id], NoErr, st)
    ELSE IF ~ownerMatches(st[id], ctx.value)
    THEN Handled(StatusUnauthorized, <<"GetAccount">>, st[id], NoErr, st)
    ELSE IF deleteFails
    THEN Handled(StatusInternalServerError, <<"GetAccount", "DeleteAccount">>,
                 st[id], "sql.ErrConnDone", st)
    ELSE Handled(StatusOK, <<"GetAccount", "DeleteAccount">>, st[id], NoErr,
                 [st EXCEPT ![id] = NoRow])

(***************************************************************************)
(* The create-account handler (POST /api/accounts)                         *)
(***************************************************************************)
\* the currencies the request binding accepts
ValidCurrencies == {"USD", "EUR"}

\* no CreateAccountParams: the store's CreateAccount was not called
NoArgs == [nil |-> TRUE]

\* the id the store gives the next account
FreeId(st) == CHOOSE id \in DOMAIN st : st[id] = NoRow /\ \A j \in DOMAIN st : (j < id => st[j] # NoRow)

\* a create handler that fills CreateAccountParams from the request body
createAccount_FromBody(ctx, body, st, createFails) ==
    IF body.currency \notin ValidCurrencies
    THEN [handled |-> Handled(StatusBadRequest, <<>>, NoRow, NoErr, st),
          args |-> NoArgs]
    ELSE IF ctx.key # authorizationPayloadKey \/ ctx.value = NilPayload
    THEN [handled |-> Handled(0, <<>>, NoRow, NoErr, st), args |-> NoArgs]
    ELSE
    LET arg == [Owner |-> IF body.owner = "" THEN ctx.value.Username ELSE body.owner,
                Balance |-> body.balance, Currency |-> body.currency]
    IN  IF createFails
        THEN [handled |-> Handled(StatusInternalServerError, <<"CreateAccount">>,
                                  NoRow, "sql.ErrConnDone", st),
              args |-> arg]
        ELSE [handled |-> Handled(StatusCreated, <<"CreateAccount">>, arg.Owner,
                                  NoErr, [st EXCEPT ![FreeId(st)] = arg.Owner]),
              args |-> arg]

\* createAccount(ctx) for the JSON body `body`, the store holding `st`;
\* createFails: the store's connection fails in CreateAccount
createAccount(ctx, body, st, createFails) ==
    IF body.currency \notin ValidCurrencies
    THEN [handled |-> Handled(StatusBadRequest, <<>>, NoRow, NoErr, st),
          args |-> NoArgs]
    ELSE IF ctx.key # authorizationPayloadKey \/ ctx.value = NilPayload
    THEN [handled |-> Handled(0, <<>>, NoRow, NoErr, st), args |-> NoArgs]
    ELSE
    LET arg == [Owner |-> ctx.value.Username, Balance |-> 0,
                Currency |-> body.currency]
    IN  IF createFails
        THEN [handled |-> Handled(StatusInternalServerError, <<"CreateAccount">>,
                                  NoRow, "sql.ErrConnDone", st),
              args |-> arg]
        ELSE [handled |-> Handled(StatusCreated, <<"CreateAccount">>, arg.Owner,
                                  NoErr, [st EXCEPT ![FreeId(st)] = arg.Owner]),
              args |-> arg]

(***************************************************************************)
(* The list-accounts handler (GET /api/accounts)                           *)
(***************************************************************************)
\* listAccounts(ctx), the store holding `st`; badQuery: the request does not
\* bind; listFails: the store's GetAccounts fails
listAccounts(ctx, st, badQuery, listFails) ==
    IF badQuery
    THEN Handled(StatusBadRequest, <<>>, NoRow, NoErr, st)
    ELSE IF ctx.key # authorizationPayloadKey \/ ctx.value = NilPayload
    THEN Handled(0, <<>>, NoRow, NoErr, st)
    ELSE IF listFails
    THEN Handled(StatusInternalServerError, <<"GetAccounts">>, NoRow,
                 "sql.ErrTxDone", st)
    ELSE Handled(StatusOK, <<"GetAccounts">>, NoRow, NoErr, st)

(***************************************************************************)
(* db/sqlc: the queries on the accounts table                              *)
(***************************************************************************)
\* no db.Account: db.Account{} with sql.ErrNoRows, or a row never inserted
NoAccount == [nil |-> TRUE]

\* the last query was not an UpdateAccountBalance that found its row
NoUpdate == [nil |-> TRUE]

\* the table before any insert; nextId is the id sequence of the table
EmptyDB ==
    [rows |-> [a \in 1..MaxAccount |-> NoAccount], nextId |-> 1, updated |-> NoUpdate]

\* Queries.CreateAccount(ctx, arg) at clock time t
CreateAccount(d, arg, t) ==
    LET account == [ID |-> d.nextId, Owner |-> arg.Owner, Balance |-> arg.Balance,
                    Currency |-> arg.Currency, CreatedAt |-> t]
    IN  [rows |-> [d.rows EXCEPT ![d.nextId] = account],
         nextId |-> d.nextId + 1, account |-> account, err |-> NoErr]

\* Queries.GetAccount(ctx, id)
GetAccount(d, id) ==
    IF id \in DOMAIN d.rows /\ d.rows[id] # NoAccount
    THEN [account |-> d.rows[id], err |-> NoErr]
    ELSE [account |-> NoAccount, err |-> "sql.ErrNoRows"]

\* an update that stores the amount as the balance
UpdateAccountBalance_Set(d, arg) ==
    IF arg.ID \in DOMAIN d.rows /\ d.rows[arg.ID] # NoAccount
    THEN LET account == [d.rows[arg.ID] EXCEPT !.Balance = arg.Amount]
         IN  [rows |-> [d.rows EXCEPT ![arg.ID] = account],
              account |-> account, err |-> NoErr]
    ELSE [rows |-> d.rows, account |-> NoAccount, err |-> "sql.ErrNoRows"]

\* Queries.UpdateAccountBalance(ctx, arg): balance = balance + arg.Amount
UpdateAccountBalance(d, arg) ==
    IF arg.ID \in DOMAIN d.rows /\ d.rows[arg.ID] # NoAccount
    THEN LET account == [d.rows[arg.ID] EXCEPT !.Balance = @ + arg.Amount]
         IN  [rows |-> [d.rows EXCEPT ![arg.ID] = account],
              account |-> account, err |-> NoErr]
    ELSE [rows |-> d.rows, account |-> NoAccount, err |-> "sql.ErrNoRows"]

\* Queries.DeleteAccount(ctx, id)
DeleteAccount(d, id) ==
    [rows |-> [a \in DOMAIN d.rows |-> IF a = id THEN NoAccount ELSE d.rows[a]],
     err |-> NoErr]

\* Queries.GetAccounts(ctx, owner): the owner's accounts, in id order
GetAccounts(d, owner) ==
    LET all == [a \in 1..MaxAccount |-> d.rows[a]]
    IN  [accounts |-> SelectSeq(all, LAMBDA r : r # NoAccount /\ r.Owner = owner),
         err |-> NoErr]

(***************************************************************************)
(* The strings a client can send                                           *)
(***************************************************************************)
\* a token whose header names alg and whose signature is the HMAC of that
\* algorithm's hash under key
SignedAs(alg, key, payload) ==
    [word |-> JWTWord, segs |-> 3,
     hdr |-> EncodeHeader(alg),
     claims |-> EncodeClaims(payload),
     sig |-> EncodeSig(HMAC(alg, key, EncodeHeader(alg), EncodeClaims(payload)))]

\* the algorithms a client may name in place of HS512
OtherAlgs == {"HS256", "HS384", "RS256", "ES256", "PS256", "EdDSA", "none"}

\* tokens made without CreateToken for the claims of payload p
Forged(p) ==
    {SignedAs(a, ServerKey, p) : a \in OtherAlgs} \cup {SignedAs("HS512", OtherKey, p)}

\* the algorithm names one altered character of "HS512" can spell
AlteredAlgs == {"ES512", "RS512", "PS512", "HS112"}

\* every string that differs from token tk in the character at one position,
\* by what the alteration does to what the string decodes to
Tamper(tk) ==
    {[tk EXCEPT !.segs = n] : n \in {2, 4}}
      \cup {[tk EXCEPT !.hdr.ok = FALSE]}
      \cup {[tk EXCEPT !.hdr.alg = a] : a \in AlteredAlgs}
      \cup {[tk EXCEPT !.hdr.typ = "JWS"]}
      \cup {[tk EXCEPT !.claims.ok = FALSE]}
      \cup {[tk EXCEPT !.claims.username = u] : u \in Users \ {tk.claims.username}}
      \cup {[tk EXCEPT !.claims.id = OtherId]}
      \cup {[tk EXCEPT !.claims.expired_at.sec = tk.claims.expired_at.sec + 1]}
      \cup {[tk EXCEPT !.sig.ok = FALSE]}
      \cup {[tk EXCEPT !.sig.mac.flip = TRUE]}
      \cup {[tk EXCEPT !.sig.pad = 1]}

\* the scheme words of the model
SchemeWords ==
    { <<"b", "e", "a", "r", "e", "r">>, <<"B", "e", "a", "r", "e", "r">>,
      <<"B", "E", "A", "R", "E", "R">>, <<"O", "A", "u", "t", "h">>,
      <<"b", "e", "a", "r">>, <<"b", "e", "a", "r", "e", "r", "s">> }

\* the token strings a client can present when `iss` is what CreateToken
\* last returned
TokenStrings(iss) ==
    {Word(<<"x", "y", "z">>)}
      \cup IF iss.err = NoErr
           THEN {iss.token} \cup Tamper(iss.token) \cup Forged(iss.payload)
           ELSE {}

\* a header as a sequence of non-empty strings
WellFormed(h) == \A i \in 1..Len(h) : h[i].word # <<>>

\* the authorization headers of the model, before the ill-formed are dropped
HeaderShapes(iss) ==
    {<<>>, <<SP>>}
      \cup {<<Word(w)>> : w \in SchemeWords}
      \cup {<<SP, tk>> : tk \in TokenStrings(iss)}
      \cup {<<Word(authorizationTypeBearer), SP, tk>> : tk \in TokenStrings(iss)}
      \cup {<<Word(w), SP, tk>> : w \in SchemeWords,
                                  tk \in {Word(<<"x", "y", "z">>), iss.token}}
      \cup {<<tk, SP, Word(authorizationTypeBearer)>> : tk \in {iss.token}}
      \cup {<<Word(authorizationTypeBearer), SP, SP, iss.token, SP>>}
      \cup {<<Word(authorizationTypeBearer), SP, tk, SP, Word(<<"x", "y", "z">>)>> :
                tk \in {Word(<<"x", "y", "z">>), iss.token}}
      \cup {<<Word(authorizationTypeBearer), SP, Word(<<"x", "y", "z">>), SP, iss.token>>,
             <<Word(<<"O", "A", "u", "t", "h">>), SP, iss.token, SP,
               Word(<<"x", "y", "z">>)>>}

\* the authorization headers of the model
Headers(iss) == {h \in HeaderShapes(iss) : WellFormed(h)}

\* the headers the model sends to the routes other than /auth
HeadersBrief(iss) ==
    {<<>>}
      \cup IF iss.err = NoErr
           THEN {<<Word(authorizationTypeBearer), SP, iss.token>>,
                 <<Word(authorizationTypeBearer), SP,
                   SignedAs("HS512", OtherKey, iss.payload)>>}
           ELSE {}

\* a request without a JSON body
NoBody == [currency |-> "", owner |-> "", balance |-> 0]

\* the JSON bodies sent to POST /api/accounts: a currency, and perhaps an
\* owner and a balance of the client's choosing
Bodies ==
    {NoBody,
     [currency |-> "USD", owner |-> "", balance |-> 0],
     [currency |-> "EUR", owner |-> "bob", balance |-> 100],
     [currency |-> "XYZ", owner |-> "", balance |-> 0]}

(***************************************************************************)
(* The state machine                                                       *)
(***************************************************************************)
NotBuilt == [built |-> FALSE]

NotIssued ==
    [token |-> EmptyString, payload |-> NilPayload, err |-> "not issued",
     duration |-> 0]

Routes == {"auth", "deleteAccount", "createAccount", "listAccounts"}

IdleReq ==
    [pc |-> "idle", route |-> "", accountId |-> 0, header |-> <<>>, at |-> 0,
     outcome |-> "", status |-> 0, err |-> [msg |-> NoErr, arg |-> <<>>],
     ctx |-> EmptyCtx, verified |-> NoVerify, nextRan |-> FALSE, calls |-> <<>>,
     account |-> NoRow, storeErr |-> NoErr, body |-> NoBody, args |-> NoArgs]

KeyLens == (minSecretKeyLen - KeySlack)..(minSecretKeyLen + KeySlack)

AccountIds == 1..MaxAccount

Init ==
    /\ config \in {[TokenSymmetricKey |-> [name |-> ServerKey, len |-> n]] : n \in KeyLens}
    /\ now = 0
    /\ jwt = NotBuilt
    /\ grpcServer = NotBuilt
    /\ issued = NotIssued
    /\ store \in [AccountIds -> Users \cup {NoRow}]
    /\ req = IdleReq
    /\ other = IdleReq
    /\ db = EmptyDB

\* the clock advances
Tick ==
    /\ req.pc = "idle"
    /\ now < MaxTime
    /\ now' = now + 1
    /\ UNCHANGED <<config, jwt, grpcServer, issued, store, req, other, db>>

\* startup: token.NewJWTMaker(config.TokenSymmetricKey)
BuildJWTMaker ==
    /\ jwt = NotBuilt
    /\ jwt' = NewJWTMaker(config.TokenSymmetricKey)
    /\ UNCHANGED <<config, now, grpcServer, issued, store, req, other, db>>

\* startup: gapi.NewServer(config, store)
BuildGRPCServer ==
    /\ grpcServer = NotBuilt
    /\ grpcServer' = NewServer(config)
    /\ UNCHANGED <<config, now, jwt, issued, store, req, other, db>>

\* startup is over and a Maker exists
HasMaker == jwt # NotBuilt /\ grpcServer # NotBuilt /\ jwt.maker # NoMaker

\* tokenMaker.CreateToken(username)
IssueToken ==
    /\ HasMaker
    /\ req.pc = "idle"
    /\ \E username \in Users \cup {""}, duration \in (-MaxDur)..MaxDur, id \in TokenIds :
          LET r == CreateToken(jwt.maker, username, duration, now, id)
          IN  issued' = [token |-> r.token, payload |-> r.payload, err |-> r.err,
                         duration |-> duration]
    /\ jwt' = [jwt EXCEPT !.maker = receiverAfterCreateToken(jwt.maker)]
    /\ UNCHANGED <<config, now, grpcServer, store, req, other, db>>

\* the request record once authMiddleware, with result m, has run at time t
afterMiddleware(m, route, id, header, body, t) ==
    [pc |-> IF m.outcome = "next" THEN "next" ELSE "done",
     route |-> route, accountId |-> id, header |-> header,
     at |-> t, outcome |-> m.outcome, status |-> m.status,
     err |-> m.err, ctx |-> m.ctx, verified |-> m.verified,
     nextRan |-> FALSE, calls |-> <<>>,
     account |-> NoRow, storeErr |-> NoErr,
     body |-> body, args |-> NoArgs]

\* the Maker once authMiddleware, with result m, has run
makerAfterMiddleware(m, j) ==
    IF m.verified = NoVerify THEN j
    ELSE [j EXCEPT !.maker = receiverAfterVerifyToken(j.maker)]

\* a request arrives and runs through authMiddleware
Request ==
    /\ HasMaker
    /\ req.pc = "idle"
    /\ \E route \in Routes, header \in Headers(issued), id \in 0..MaxAccount,
          body \in Bodies :
          /\ route # "deleteAccount" => id = 0
          /\ route # "auth" => header \in HeadersBrief(issued)
          /\ route # "createAccount" => body = NoBody
          /\ route = "createAccount" => \E a \in AccountIds : store[a] = NoRow
          /\ LET m == authMiddleware(jwt.maker, header, now)
             IN  /\ req' = afterMiddleware(m, route, id, header, body, now)
                 /\ jwt' = makerAfterMiddleware(m, jwt)
    /\ UNCHANGED <<config, now, grpcServer, issued, store, other, db>>

\* ctx.Next() on the /auth route: ctx.JSON(http.StatusOK, gin.H{})
AuthHandler ==
    /\ req.pc = "next"
    /\ req.route = "auth"
    /\ req' = [req EXCEPT !.pc = "done", !.nextRan = TRUE, !.status = StatusOK]
    /\ UNCHANGED <<config, now, jwt, grpcServer, issued, store, other, db>>

\* ctx.Next() on DELETE /api/accounts/:id
DeleteAccountHandler ==
    /\ req.pc = "next"
    /\ req.route = "deleteAccount"
    /\ \E getFails \in BOOLEAN, deleteFails \in BOOLEAN :
          LET r == deleteAccount(req.ctx, req.accountId, store, getFails, deleteFails)
          IN  /\ req' = [req EXCEPT !.pc = "done", !.nextRan = TRUE,
                                    !.status = r.status, !.calls = r.calls,
                                    !.account = r.account,
                                    !.storeErr = r.storeErr]
              /\ store' = r.store
    /\ UNCHANGED <<config, now, jwt, grpcServer, issued, other, db>>

\* ctx.Next() on POST /api/accounts
CreateAccountHandler ==
    /\ req.pc = "next"
    /\ req.route = "createAccount"
    /\ \E createFails \in BOOLEAN :
          LET r == createAccount(req.ctx, req.body, store, createFails)
          IN  /\ req' = [req EXCEPT !.pc = "done", !.nextRan = TRUE,
                                    !.status = r.handled.status,
                                    !.calls = r.handled.calls,
                                    !.account = r.handled.account,
                                    !.storeErr = r.handled.storeErr,
                                    !.args = r.args]
              /\ store' = r.handled.store
    /\ UNCHANGED <<config, now, jwt, grpcServer, issued, other, db>>

\* ctx.Next() on GET /api/accounts
ListAccountsHandler ==
    /\ req.pc = "next"
    /\ req.route = "listAccounts"
    /\ \E badQuery \in BOOLEAN, listFails \in BOOLEAN :
          LET r == listAccounts(req.ctx, store, badQuery, listFails)
          IN  /\ req' = [req EXCEPT !.pc = "done", !.nextRan = TRUE,
                                    !.status = r.status, !.calls = r.calls,
                                    !.storeErr = r.storeErr]
              /\ store' = r.store
    /\ UNCHANGED <<config, now, jwt, grpcServer, issued, other, db>>

\* the response is written and the request is over
Respond ==
    /\ req.pc = "done"
    /\ req' = IdleReq
    /\ UNCHANGED <<config, now, jwt, grpcServer, issued, store, other, db>>

Next ==
    \/ Tick
    \/ BuildJWTMaker
    \/ BuildGRPCServer
    \/ IssueToken
    \/ Request
    \/ AuthHandler
    \/ DeleteAccountHandler
    \/ CreateAccountHandler
    \/ ListAccountsHandler
    \/ Respond

Spec == Init /\ [][Next]_vars

(***************************************************************************)
(* The queries run against the accounts table                              *)
(***************************************************************************)
Amounts == (-MaxAmount)..MaxAmount

Balances == (-MaxBalance)..MaxBalance

\* the server is not started and the table is empty
InitDB ==
    /\ Init
    /\ config.TokenSymmetricKey.len = minSecretKeyLen
    /\ store = [a \in AccountIds |-> NoRow]

\* testQueries.CreateAccount
RunCreateAccount ==
    /\ db.nextId <= MaxAccount
    /\ \E owner \in Users, balance \in {0, MaxBalance}, currency \in ValidCurrencies :
          LET r == CreateAccount(db, [Owner |-> owner, Balance |-> balance,
                                      Currency |-> currency], now)
          IN  db' = [rows |-> r.rows, nextId |-> r.nextId, updated |-> NoUpdate]
    /\ UNCHANGED <<config, now, jwt, grpcServer, issued, store, req, other>>

\* testQueries.GetAccount
RunGetAccount ==
    /\ \E id \in AccountIds :
          /\ GetAccount(db, id).err \in {NoErr, "sql.ErrNoRows"}
          /\ db' = [db EXCEPT !.updated = NoUpdate]
    /\ UNCHANGED <<config, now, jwt, grpcServer, issued, store, req, other>>

\* testQueries.UpdateAccountBalance
RunUpdateAccountBalance ==
    /\ \E id \in AccountIds, amount \in Amounts :
          LET arg == [ID |-> id, Amount |-> amount]
              r == UpdateAccountBalance(db, arg)
          IN  /\ r.err = NoErr => r.account.Balance \in Balances
              /\ db' = [db EXCEPT !.rows = r.rows,
                                   !.updated = IF r.err = NoErr THEN arg ELSE NoUpdate]
    /\ UNCHANGED <<config, now, jwt, grpcServer, issued, store, req, other>>

\* testQueries.DeleteAccount
RunDeleteAccount ==
    /\ \E id \in AccountIds :
          db' = [db EXCEPT !.rows = DeleteAccount(db, id).rows, !.updated = NoUpdate]
    /\ UNCHANGED <<config, now, jwt, grpcServer, issued, store, req, other>>

\* testQueries.GetAccounts
RunGetAccounts ==
    /\ \E owner \in Users :
          /\ Len(GetAccounts(db, owner).accounts) <= MaxAccount
          /\ db' = [db EXCEPT !.updated = NoUpdate]
    /\ UNCHANGED <<config, now, jwt, grpcServer, issued, store, req, other>>

NextDB ==
    \/ Tick
    \/ RunCreateAccount
    \/ RunGetAccount
    \/ RunUpdateAccountBalance
    \/ RunDeleteAccount
    \/ RunGetAccounts

SpecDB == InitDB /\ [][NextDB]_vars

(***************************************************************************)
(* Two requests served concurrently by one Maker                           *)
(***************************************************************************)
\* the server is configured with a key of the minimal length
InitConc ==
    /\ Init
    /\ config.TokenSymmetricKey.len = minSecretKeyLen
    /\ store = [a \in AccountIds |-> NoRow]

\* the headers of the concurrent requests: none, or the issued token
HeadersConc(iss) ==
    {<<>>} \cup IF iss.err = NoErr
                THEN {<<Word(authorizationTypeBearer), SP, iss.token>>}
                ELSE {}

\* the clock advances, whatever is in flight
ConcTick ==
    /\ now < MaxTime
    /\ now' = now + 1
    /\ UNCHANGED <<config, jwt, grpcServer, issued, store, req, other, db>>

\* tokenMaker.CreateToken(username), whatever is in flight
ConcCreateToken ==
    /\ HasMaker
    /\ \E username \in Users, duration \in {-MaxDur, MaxDur}, id \in TokenIds :
          LET r == CreateToken(jwt.maker, username, duration, now, id)
          IN  issued' = [token |-> r.token, payload |-> r.payload, err |-> r.err,
                         duration |-> duration]
    /\ jwt' = [jwt EXCEPT !.maker = receiverAfterCreateToken(jwt.maker)]
    /\ UNCHANGED <<config, now, grpcServer, store, req, other, db>>

\* tokenMaker.CreateRefreshToken(username), whatever is in flight
ConcCreateRefreshToken ==
    /\ HasMaker
    /\ \E username \in Users :
          CreateRefreshToken(jwt.maker, username).err = NoErr
    /\ jwt' = [jwt EXCEPT !.maker = receiverAfterCreateRefreshToken(jwt.maker)]
    /\ UNCHANGED <<config, now, grpcServer, issued, store, req, other, db>>

\* a request has arrived and waits for its goroutine to run authMiddleware
arrived(header) == [IdleReq EXCEPT !.pc = "arrived", !.route = "auth", !.header = header]

\* the first request arrives
ArriveReq ==
    /\ HasMaker
    /\ req.pc = "idle"
    /\ \E header \in HeadersConc(issued) : req' = arrived(header)
    /\ UNCHANGED <<config, now, jwt, grpcServer, issued, store, other, db>>

\* the first request runs through authMiddleware and the /auth handler
ServeReq ==
    /\ req.pc = "arrived"
    /\ LET m == authMiddleware(jwt.maker, req.header, now)
           r == afterMiddleware(m, req.route, 0, req.header, NoBody, now)
       IN  /\ req' = IF r.pc = "next"
                     THEN [r EXCEPT !.pc = "done", !.nextRan = TRUE,
                                    !.status = StatusOK]
                     ELSE r
           /\ jwt' = makerAfterMiddleware(m, jwt)
    /\ UNCHANGED <<config, now, grpcServer, issued, store, other, db>>

\* the second request arrives
ArriveOther ==
    /\ HasMaker
    /\ other.pc = "idle"
    /\ \E header \in HeadersConc(issued) : other' = arrived(header)
    /\ UNCHANGED <<config, now, jwt, grpcServer, issued, store, req, db>>

\* the second request runs through authMiddleware and the /auth handler
ServeOther ==
    /\ other.pc = "arrived"
    /\ LET m == authMiddleware(jwt.maker, other.header, now)
           r == afterMiddleware(m, other.route, 0, other.header, NoBody, now)
       IN  /\ other' = IF r.pc = "next"
                       THEN [r EXCEPT !.pc = "done", !.nextRan = TRUE,
                                      !.status = StatusOK]
                       ELSE r
           /\ jwt' = makerAfterMiddleware(m, jwt)
    /\ UNCHANGED <<config, now, grpcServer, issued, store, req, db>>

\* the second request's response is written
RespondOther ==
    /\ other.pc = "done"
    /\ other' = IdleReq
    /\ UNCHANGED <<config, now, jwt, grpcServer, issued, store, req, db>>

NextConc ==
    \/ BuildJWTMaker
    \/ BuildGRPCServer
    \/ ConcTick
    \/ ConcCreateToken
    \/ ConcCreateRefreshToken
    \/ ArriveReq
    \/ ServeReq
    \/ Respond
    \/ ArriveOther
    \/ ServeOther
    \/ RespondOther

SpecConc == InitConc /\ [][NextConc]_vars

(***************************************************************************)
(* Properties                                                              *)
(***************************************************************************)
\* a request has been through authMiddleware
Served == req.pc # "idle"

\* the fields of the served request's header
ReqFields == Fields(req.header)

\* the header has at least two fields
TwoFields == Len(req.header) > 0 /\ Len(ReqFields) >= 2

\* the spellings of the scheme that lower-case to "bearer"
BearerSpellings ==
    { <<"b", "e", "a", "r", "e", "r">>, <<"B", "e", "a", "r", "e", "r">>,
      <<"B", "E", "A", "R", "E", "R">> }

\* VerifyToken was called for the served request
VerifyCalled == req.verified # NoVerify

\* the served request presents, as its second field, the token CreateToken
\* last returned
PresentsIssued ==
    /\ Served /\ VerifyCalled
    /\ issued.err = NoErr
    /\ ReqFields[2] = issued.token

\* the request was rejected by the middleware with 401 and nothing else happened
Rejected401 ==
    /\ req.pc = "done"
    /\ req.outcome = "abort"
    /\ req.status = StatusUnauthorized
    /\ req.ctx = EmptyCtx
    /\ ~req.nextRan
    /\ req.calls = <<>>

\* C1: whenever VerifyToken returns an error for the second header field, the
\* request ends with 401 carrying that error, no Payload is attached and the
\* next handler is never invoked.
C1_VerifyErrorIs401 ==
    (Served /\ VerifyCalled /\ req.verified.err # NoErr) =>
        /\ Rejected401
        /\ req.err.msg = req.verified.err

\* the store's DeleteAccount was called for the served request
DeleteCalled == \E i \in 1..Len(req.calls) : req.calls[i] = "DeleteAccount"

\* C2 as stated: for a delete-account request with a valid token whose account
\* was loaded, DeleteAccount is called if and only if the account's owner
\* equals the identity of the token's Payload; a match is answered 200, a
\* mismatch is answered 401 without DeleteAccount.
C2_DeleteIffOwner200 ==
    (req.route = "deleteAccount" /\ req.nextRan /\ req.account # NoRow) =>
        LET identity == DecodeClaims(ReqFields[2].claims).Username
        IN  /\ req.verified.err = NoErr
            /\ DeleteCalled <=> (req.account = identity)
            /\ req.account = identity => req.status = StatusOK
            /\ req.account # identity => req.status = StatusUnauthorized

\* C2 amended: for a delete-account request with a valid token whose account
\* was loaded, DeleteAccount is called if and only if the account's owner
\* equals the identity of the token's Payload; a mismatch is answered 401
\* without DeleteAccount; a match is answered 200, the account deleted, when
\* the store's DeleteAccount succeeds, and 500 when it returns an error.
C2_DeleteIffOwner ==
    (req.route = "deleteAccount" /\ req.nextRan /\ req.account # NoRow) =>
        LET identity == DecodeClaims(ReqFields[2].claims).Username
        IN  /\ req.verified.err = NoErr
            /\ DeleteCalled <=> (req.account = identity)
            /\ req.account # identity => req.status = StatusUnauthorized
            /\ req.account = identity =>
                  /\ req.status = (IF req.storeErr = NoErr THEN StatusOK
                                   ELSE StatusInternalServerError)
                  /\ req.status = StatusOK => store[req.accountId] = NoRow

\* C2 witness: a valid token for an identity that is not the account's owner
\* was rejected with 401 and DeleteAccount was not called
C2_Witness ==
    /\ req.route = "deleteAccount" /\ req.nextRan /\ req.account # NoRow
    /\ req.verified.err = NoErr
    /\ req.account # req.verified.payload.Username
    /\ req.status = StatusUnauthorized
    /\ req.calls = <<"GetAccount">>

\* C3: VerifyToken rejects every token whose header names an algorithm other
\* than HS512, also when its signature is the HMAC of the named algorithm
\* under the configured secret.
C3_OtherAlgRejected ==
    (Served /\ VerifyCalled /\ ReqFields[2].segs = 3 /\ ReqFields[2].hdr.ok
        /\ ReqFields[2].hdr.alg # "HS512") =>
        /\ req.verified.err # NoErr
        /\ req.verified.payload = NilPayload

\* C4: a token created for a non-empty identity with a duration > 0 and
\* verified at once (same maker) verifies without error, and the Payload
\* returned has the identity, id, issuedAt and expiresAt of the Payload
\* CreateToken returned.
C4_RoundTrip ==
    (PresentsIssued
        /\ issued.payload.ExpireAt > issued.payload.IssuedAt
        /\ req.at = issued.payload.IssuedAt) =>
        /\ req.verified.err = NoErr
        /\ req.verified.payload.Username = issued.payload.Username
        /\ req.verified.payload.ID = issued.payload.ID
        /\ req.verified.payload.IssuedAt = issued.payload.IssuedAt
        /\ req.verified.payload.ExpireAt = issued.payload.ExpireAt

\* C4 witness: a token issued at an instant with a fraction of a second, with
\* a positive duration, was verified at that instant
C4_Witness ==
    /\ PresentsIssued
    /\ issued.payload.ExpireAt > issued.payload.IssuedAt
    /\ req.at = issued.payload.IssuedAt
    /\ issued.payload.IssuedAt % TicksPerSec # 0
    /\ req.verified.payload = issued.payload

\* C5: an authentic token is rejected with TokenExpired exactly when
\* now > expiresAt (so always when its duration is < 0) and accepted otherwise,
\* and a request presenting an expired token as bearer token gets 401.
C5_ExpiredIffPastExpiry ==
    PresentsIssued =>
        IF req.at > issued.payload.ExpireAt
        THEN /\ req.verified.err = ErrTokenExpired
             /\ req.status = StatusUnauthorized
        ELSE req.verified.err = NoErr

\* C6: altering one position of a token CreateToken returned makes VerifyToken
\* fail with no Payload, and the error is of the signature/authenticity kind,
\* not TokenExpired and not the generic TokenInvalid.
C6_TamperedIsSignatureError ==
    (Served /\ VerifyCalled /\ issued.err = NoErr
        /\ ReqFields[2] \in Tamper(issued.token)) =>
        /\ req.verified.payload = NilPayload
        /\ req.verified.err \notin {NoErr, ErrTokenExpired, ErrTokenInvalid}

\* C7: constructing a Maker fails, yielding no Maker, exactly when the secret
\* is shorter than 32 bytes; NewServer propagates the failure and returns no
\* server; no token is created or verified with a weak key.
C7_WeakKeyRejected ==
    LET weak == config.TokenSymmetricKey.len < minSecretKeyLen
    IN  /\ jwt # NotBuilt =>
              /\ (jwt.err # NoErr) <=> weak
              /\ (jwt.maker = NoMaker) <=> weak
              /\ ~weak => jwt.maker.secretKey = config.TokenSymmetricKey
        /\ grpcServer # NotBuilt =>
              /\ (grpcServer.err # NoErr) <=> weak
              /\ (grpcServer.server = NoServer) <=> weak
              /\ ~weak => grpcServer.server.tokenMaker # NoMaker
        /\ (issued # NotIssued \/ VerifyCalled) => ~weak

\* C7 witness: startup with a 31-byte secret ended with no Maker and no server
C7_Witness ==
    /\ config.TokenSymmetricKey.len = minSecretKeyLen - 1
    /\ jwt # NotBuilt /\ jwt.maker = NoMaker /\ jwt.err # NoErr
    /\ grpcServer # NotBuilt /\ grpcServer.server = NoServer

\* C8: whenever the handler behind authMiddleware runs, the context holds,
\* under the payload key, the Payload VerifyToken returned for the token of
\* the authorization header, set before the handler is invoked; and a request
\* with a valid unexpired bearer token reaches the handler (200 on /auth).
C8_PayloadInContext ==
    /\ (req.pc = "next" \/ req.nextRan) =>
          /\ TwoFields
          /\ req.verified = VerifyToken(jwt.maker, ReqFields[2], req.at)
          /\ req.verified.err = NoErr
          /\ req.ctx.key = authorizationPayloadKey
          /\ req.ctx.value = req.verified.payload
          /\ req.ctx.value # NilPayload
    /\ (PresentsIssued /\ req.at <= issued.payload.ExpireAt) =>
          /\ req.outcome = "next"
          /\ req.pc = "done" => req.nextRan
          /\ (req.pc = "done" /\ req.route = "auth") => req.status = StatusOK

\* C8 witness: the /auth handler ran for the issued token and answered 200
C8_Witness ==
    /\ PresentsIssued
    /\ req.route = "auth" /\ req.nextRan /\ req.status = StatusOK
    /\ req.ctx = [key |-> authorizationPayloadKey, value |-> issued.payload]

\* C9: a header with at least two fields passes the scheme check if and only
\* if its first field lower-cased is "bearer" ("Bearer", "BEARER", "bearer");
\* for any other first field the request is rejected with 401 "unsupported
\* authorization type", VerifyToken is not called and the handler does not run.
C9_SchemeCaseInsensitive ==
    (Served /\ TwoFields) =>
        /\ (ToLower(ReqFields[1].word) = authorizationTypeBearer)
              <=> (ReqFields[1].word \in BearerSpellings)
        /\ IF ReqFields[1].word \in BearerSpellings
           THEN VerifyCalled
           ELSE /\ Rejected401
                /\ req.err.msg = "unsupported authorization type"
                /\ req.err.arg = ToLower(ReqFields[1].word)
                /\ ~VerifyCalled

\* C9 witness: a request with the scheme written "BEARER" got to VerifyToken
\* and on to the handler
C9_Witness ==
    /\ Served /\ TwoFields
    /\ ReqFields[1].word = <<"B", "E", "A", "R", "E", "R">>
    /\ VerifyCalled
    /\ req.nextRan

\* C10: a request whose authorization header is absent or empty is rejected
\* with 401 "authorization header not provided"; VerifyToken is not called, no
\* Payload is attached and the handler does not run.
C10_MissingHeader ==
    (Served /\ req.header = <<>>) =>
        /\ Rejected401
        /\ req.err = [msg |-> "authorization header not provided", arg |-> <<>>]
        /\ ~VerifyCalled

\* C10 witness: a request without header was answered 401
C10_Witness ==
    /\ req.pc = "done" /\ req.header = <<>>
    /\ req.status = StatusUnauthorized

\* the number of maximal runs of non-space characters in the served header
NonSpaceRuns == Cardinality({i \in 1..Len(req.header) : ~IsSpace(req.header[i])})

\* C11: a non-empty authorization header with fewer than two fields (a scheme
\* with no token, a token with no scheme, white space only) is rejected with
\* 401 "invalid authorization format", whatever its one field spells;
\* VerifyToken is not called and the handler does not run.
C11_TooFewFields ==
    (Served /\ Len(req.header) > 0 /\ NonSpaceRuns < 2) =>
        /\ Rejected401
        /\ req.err = [msg |-> "invalid authorization format", arg |-> <<>>]
        /\ ~VerifyCalled

\* C11 witness: a header made of white space and a token, without a scheme,
\* was answered 401 "invalid authorization format"
C11_Witness ==
    /\ req.pc = "done" /\ issued.err = NoErr
    /\ req.header = <<SP, issued.token>>
    /\ req.status = StatusUnauthorized
    /\ req.err.msg = "invalid authorization format"

\* the delete-account handler is about to run for an id the store has no row for
DeleteOfMissing ==
    /\ req.pc = "next" /\ req.route = "deleteAccount"
    /\ req.accountId >= 1
    /\ store[req.accountId] = NoRow

\* C12: the delete-account handler loads the account before it compares the
\* owner: when the load reports that the account does not exist the response
\* is 404 whatever identity the valid token carries, the comparison decides
\* nothing (no 401, no 200) and DeleteAccount is not called; the comparison
\* decides only for an account that was loaded.
C12_LoadBeforeOwnerCheck ==
    [][ /\ DeleteOfMissing =>
              /\ req'.calls = <<"GetAccount">>
              /\ req'.status \in {StatusNotFound, StatusInternalServerError}
              /\ req'.storeErr = "sql.ErrNoRows" <=> req'.status = StatusNotFound
              /\ req'.account = NoRow
              /\ store' = store
        /\ (req.pc = "next" /\ req.route = "deleteAccount"
              /\ (req'.status = StatusUnauthorized \/ req'.status = StatusOK)) =>
              /\ req'.calls[1] = "GetAccount"
              /\ req'.account = store[req.accountId]
              /\ req'.account # NoRow
      ]_vars

\* C12 witness: a valid token of some identity asked to delete an account
\* that does not exist and was answered 404 after the one GetAccount
C12_Witness ==
    /\ req.route = "deleteAccount" /\ req.nextRan
    /\ req.verified.err = NoErr
    /\ req.storeErr = "sql.ErrNoRows"
    /\ req.status = StatusNotFound
    /\ req.calls = <<"GetAccount">>

\* the arguments the create-account handler must pass for the served request
ExpectedCreateArgs ==
    [Owner |-> DecodeClaims(ReqFields[2].claims).Username, Balance |-> 0,
     Currency |-> req.body.currency]

\* C13 as stated: an authenticated create-account request with a valid body
\* calls the store's CreateAccount exactly once, with Owner the identity of
\* the token's Payload and Balance 0 whatever the body says, and is answered
\* 201; with an invalid body CreateAccount is not called and the answer is 400.
C13_CreateForCaller201 ==
    (req.route = "createAccount" /\ req.nextRan) =>
        IF req.body.currency \in ValidCurrencies
        THEN /\ req.calls = <<"CreateAccount">>
             /\ req.args = ExpectedCreateArgs
             /\ req.status = StatusCreated
        ELSE /\ req.calls = <<>> /\ req.args = NoArgs
             /\ req.status = StatusBadRequest

\* C13 amended: as C13, the answer to a valid body being 201 when the store's
\* CreateAccount succeeds and 500 when it returns an error; the account
\* created belongs to the caller.
C13_CreateForCaller ==
    (req.route = "createAccount" /\ req.nextRan) =>
        IF req.body.currency \in ValidCurrencies
        THEN /\ req.calls = <<"CreateAccount">>
             /\ req.args = ExpectedCreateArgs
             /\ req.status = (IF req.storeErr = NoErr THEN StatusCreated
                              ELSE StatusInternalServerError)
             /\ req.status = StatusCreated =>
                   \E a \in AccountIds : store[a] = req.verified.payload.Username
        ELSE /\ req.calls = <<>> /\ req.args = NoArgs
             /\ req.status = StatusBadRequest

\* C13 witness: alice's token with a body naming bob as owner and a balance
\* of 100 created an account of alice with balance 0
C13_Witness ==
    /\ req.route = "createAccount" /\ req.nextRan
    /\ req.body = [currency |-> "EUR", owner |-> "bob", balance |-> 100]
    /\ req.verified.payload.Username = "alice"
    /\ req.args = [Owner |-> "alice", Balance |-> 0, Currency |-> "EUR"]
    /\ req.status = StatusCreated

\* the columns of account a that no query may change
Fixed(d, a) ==
    [ID |-> d.rows[a].ID, Owner |-> d.rows[a].Owner,
     Currency |-> d.rows[a].Currency, CreatedAt |-> d.rows[a].CreatedAt]

\* C14: no query changes the owner of an existing account, so after any
\* sequence of queries the owner is the one the account was created with (ids
\* are not reused); UpdateAccountBalance(id, amount) makes the balance the
\* previous balance plus amount and leaves id, owner, currency and creation
\* time as they were.
C14_OwnerFixedBalanceAdded ==
    [][ /\ \A a \in AccountIds :
              /\ (db.rows[a] # NoAccount /\ db'.rows[a] # NoAccount) =>
                    Fixed(db', a) = Fixed(db, a)
              /\ (db.rows[a] = NoAccount /\ db'.rows[a] # NoAccount) =>
                    a = db.nextId /\ db'.nextId > a
        /\ (db'.updated # NoUpdate /\ db'.rows # db.rows) =>
              LET a == db'.updated.ID
              IN  /\ db.rows[a] # NoAccount /\ db'.rows[a] # NoAccount
                  /\ db'.rows[a].Balance = db.rows[a].Balance + db'.updated.Amount
                  /\ Fixed(db', a) = Fixed(db, a)
                  /\ \A b \in AccountIds \ {a} : db'.rows[b] = db.rows[b]
      ]_vars

\* C14 witness: an account created at an earlier time holds, after an update
\* by a non-zero amount, the balance MaxBalance - 1
C14_Witness ==
    /\ db.updated # NoUpdate
    /\ db.updated.Amount # 0
    /\ db.rows[db.updated.ID].Balance = MaxBalance - 1
    /\ db.rows[db.updated.ID].CreatedAt < now

\* C15 as stated: every Payload token creation produces has
\* expiresAt > issuedAt, for every duration the caller passes.
C15_ExpiresAfterIssued ==
    issued.err = NoErr => issued.payload.ExpireAt > issued.payload.IssuedAt

\* C15 amended: every Payload token creation produces has
\* expiresAt = issuedAt + duration, so expiresAt > issuedAt exactly when the
\* duration passed is > 0; and no step changes a Payload once created: the
\* issued Payload is only ever replaced by a fresh one, and the Payload in a
\* request's context stays as the middleware set it.
C15_ExpiryIsIssuedPlusDuration ==
    [][ /\ issued'.err = NoErr =>
              /\ issued'.payload.ExpireAt = issued'.payload.IssuedAt + issued'.duration
              /\ (issued'.payload.ExpireAt > issued'.payload.IssuedAt)
                    <=> (issued'.duration > 0)
        /\ issued' # issued =>
              /\ req.pc = "idle" /\ req' = req
              /\ issued'.err = NoErr => issued'.payload.IssuedAt = now
        /\ (req.pc = "next" /\ req'.pc = "done") =>
              /\ req'.ctx = req.ctx
              /\ req'.verified = req.verified
      ]_vars

\* C15 witness: a token created with a negative duration, whose Payload
\* expires before it was issued
C15_Witness ==
    /\ issued.err = NoErr
    /\ issued.duration < 0
    /\ issued.payload.ExpireAt < issued.payload.IssuedAt

\* the served request was authorized: the Payload is attached and ctx.Next()
\* was reached
Authorized ==
    /\ req.outcome = "next"
    /\ req.verified.err = NoErr
    /\ req.ctx = [key |-> authorizationPayloadKey, value |-> req.verified.payload]
    /\ req.pc = "done" => req.nextRan

\* C16: every request that enters authMiddleware ends in exactly one of two
\* outcomes: rejected with 401, the handler not run, or authorized, the
\* Payload attached and the handler run; the middleware produces no other
\* status and never terminates abnormally.
C16_OneTerminalOutcome ==
    Served =>
        /\ req.outcome \in {"abort", "next"}
        /\ req.outcome = "abort" =>
              /\ req.status = StatusUnauthorized
              /\ req.ctx = EmptyCtx /\ ~req.nextRan
        /\ req.outcome = "next" => Authorized

\* the token the served request presented to VerifyToken
Presented == ReqFields[2]

\* the presented string is not three base64url segments of JSON
Malformed ==
    Presented.segs # 3 \/ ~Presented.hdr.ok \/ ~Presented.claims.ok

\* the presented token's signature is the HMAC, of the algorithm its header
\* names, of its header and claims under the server's secret
Authentic ==
    /\ ~Malformed
    /\ Presented.hdr.alg \in HMACMethods
    /\ Presented.sig.ok
    /\ Presented.sig.mac =
          HMAC(Presented.hdr.alg, ServerKey, Presented.hdr, Presented.claims)

\* the presented token's claims say it expired before the request
PastExpiry == req.at > UnmarshalTime(Presented.claims.expired_at)

\* C17: VerifyToken reports a structurally invalid token as
\* TokenMalformed, a failed signature check as TokenSignatureInvalid, an
\* authentic expired token as TokenExpired, and TokenInvalid only otherwise.
C17_FourKinds ==
    (Served /\ VerifyCalled) =>
        /\ Malformed => req.verified.err = "ErrTokenMalformed"
        /\ (~Malformed /\ ~Authentic) => req.verified.err = "ErrTokenSignatureInvalid"
        /\ (Authentic /\ PastExpiry) => req.verified.err = ErrTokenExpired
        /\ req.verified.err = ErrTokenInvalid =>
              ~(Malformed \/ ~Authentic \/ PastExpiry)

\* request r ended as it ends when it is the only request the Maker built
\* from the configured secret serves at clock time r.at
AsAlone(r) ==
    r.pc = "done" =>
        LET m == authMiddleware(NewJWTMaker(config.TokenSymmetricKey).maker,
                                r.header, r.at)
        IN  /\ r.outcome = m.outcome
            /\ r.verified = m.verified
            /\ r.ctx = m.ctx
            /\ r.err = m.err
            /\ r.status = (IF m.outcome = "next" THEN StatusOK ELSE m.status)

\* C18: no CreateToken, CreateRefreshToken or VerifyToken changes the Maker
\* or its secret once constructed, and however two requests, token creation
\* and the clock interleave, each request ends as it ends when served alone
\* at the same clock time; so the same token verified again at the same time
\* gives the same result.
C18_MakerImmutable ==
    [][ /\ jwt # NotBuilt => jwt' = jwt
        /\ AsAlone(req') /\ AsAlone(other')
        /\ (req'.pc = "done" /\ other'.pc = "done"
              /\ req'.header = other'.header /\ req'.at = other'.at) =>
              req'.verified = other'.verified
      ]_vars

\* C18 witness: two requests in flight at once presented the issued token and
\* both were verified, at the same clock time, with the same result
C18_Witness ==
    /\ req.pc = "done" /\ other.pc = "done"
    /\ issued.err = NoErr
    /\ req.header = <<Word(authorizationTypeBearer), SP, issued.token>>
    /\ other.header = req.header
    /\ req.at = other.at
    /\ req.verified # NoVerify
    /\ req.verified = other.verified

\* C19: a request the middleware did not authorize causes no store call and
\* no change of the store: GetAccount, CreateAccount, GetAccounts and
\* DeleteAccount are called, and the store changes, only in the handler step
\* of a request whose token the middleware verified without error.
C19_NoStoreCallUnlessVerified ==
    [][ /\ (req'.calls # <<>> \/ store' # store) =>
              /\ req.pc = "next" /\ req.outcome = "next"
              /\ req.verified # NoVerify /\ req.verified.err = NoErr
              /\ req.ctx = [key |-> authorizationPayloadKey,
                            value |-> req.verified.payload]
        /\ (req'.pc # "idle" /\ req'.outcome # "next") =>
              /\ req'.calls = <<>> /\ ~req'.nextRan
              /\ store' = store
      ]_vars

\* C19 witness: a delete request without authorization header for an account
\* that exists was answered 401 with no store call, the account still there
C19_Witness ==
    /\ req.route = "deleteAccount" /\ req.pc = "done"
    /\ req.header = <<>> /\ req.status = StatusUnauthorized
    /\ req.accountId >= 1 /\ store[req.accountId] # NoRow
    /\ req.calls = <<>>

\* C20: for every string it is given VerifyToken returns exactly one of a
\* Payload and an error: a Payload with a nil error, or no Payload with
\* ErrTokenExpired or ErrTokenInvalid; never both and never neither.
C20_PayloadXorError ==
    (Served /\ VerifyCalled) =>
        \/ /\ req.verified.payload # NilPayload
           /\ req.verified.err = NoErr
        \/ /\ req.verified.payload = NilPayload
           /\ req.verified.err \in {ErrTokenExpired, ErrTokenInvalid}

\* C20 witness: an issued token presented after its expiry got
\* ErrTokenExpired and no Payload
C20_Witness ==
    /\ PresentsIssued
    /\ req.at > issued.payload.ExpireAt
    /\ req.verified = [payload |-> NilPayload, err |-> ErrTokenExpired]

\* the positions of the served header that hold a field
FieldPositions == {i \in 1..Len(req.header) : ~IsSpace(req.header[i])}

\* the n-th field of the served header, found by position
NthField(n) ==
    req.header[CHOOSE i \in FieldPositions :
                  Cardinality({j \in FieldPositions : j <= i}) = n]

\* the header made of the first two fields of the served header
FirstTwoFields == <<NthField(1), SP, NthField(2)>>

\* C21: authMiddleware passes exactly the second field of the header to
\* VerifyToken and ignores every further field: a header with three or more
\* fields ends as the header made of its first two fields ends.
C21_SecondFieldOnly ==
    /\ (Served /\ VerifyCalled) =>
          req.verified = VerifyToken(jwt.maker, NthField(2), req.at)
    /\ (Served /\ Cardinality(FieldPositions) >= 3) =>
          LET m == authMiddleware(jwt.maker, FirstTwoFields, req.at)
          IN  /\ req.outcome = m.outcome
              /\ req.verified = m.verified
              /\ req.ctx = m.ctx
              /\ req.err = m.err
              /\ ~req.nextRan => req.status = m.status

\* C21 witness: a header of three fields whose second field is not a token
\* and whose third field is the issued token was not authorized
C21_Witness ==
    /\ Served /\ issued.err = NoErr
    /\ req.header = <<Word(authorizationTypeBearer), SP, Word(<<"x", "y", "z">>),
                      SP, issued.token>>
    /\ req.verified.err = ErrTokenInvalid
    /\ req.outcome # "next"

====
